---- MODULE Spec2Model ----
(***************************************************************************)
(* A model of dice.py: the outcome-count distribution of a list of dice    *)
(* (diceDict, built on _mergeDiceDicts), the probabilities derived from it *)
(* (diceProb) and the sampler (roll).                                      *)
(*                                                                         *)
(* A Python dict is modelled as a TLA+ function from its keys to its       *)
(* values: the order in which a dict yields its keys is not part of the    *)
(* model (dict equality in Python ignores it as well).  Python integers    *)
(* are unbounded, and so are the integers here.                            *)
(***************************************************************************)
EXTENDS Integers, Sequences, FiniteSets, TLC

VARIABLES diceList, op, result, d1, d2

vars == <<diceList, op, result, d1, d2>>

(***************************************************************************)
(* Bounds of the model.                                                    *)
(***************************************************************************)
\* longest die-list
MaxDice == 3
\* largest number of sides of a Uniform die (the smallest tried is -1)
MaxSides == 2
\* largest key of an argument of _mergeDiceDicts (the smallest is -1)
MaxKey == 1
\* largest count in an argument of _mergeDiceDicts
MaxCount == 2

(***************************************************************************)
(* Die descriptors and arguments.  An element of a die-list is an int (a   *)
(* die with sides 1..n) or a list (the values on the sides).  The argument *)
(* of an operation is a list of those, a bare int, or something else (a    *)
(* string, say).                                                           *)
(***************************************************************************)
Uniform(n) == [kind |-> "int", n |-> n, values |-> <<>>]

Explicit(values) == [kind |-> "list", n |-> 0, values |-> values]

ListArg(items) == [kind |-> "list", items |-> items, n |-> 0]

IntArg(n) == [kind |-> "int", items |-> <<>>, n |-> n]

OtherArg == [kind |-> "other", items |-> <<>>, n |-> 0]

SeqsUpTo(S, k) == UNION {[1..m -> S] : m \in 0..k}

SideCounts == (-1)..MaxSides

\* the Explicit dice tried: no face, one face, a repeated face, a negative
\* face, faces that are not consecutive
ExplicitFaces == {<<>>, <<0>>, <<1, 1>>, <<-1, 1>>, <<0, 2>>}

Dice == {Uniform(n) : n \in SideCounts} \cup {Explicit(v) : v \in ExplicitFaces}

Args == {ListArg(items) : items \in SeqsUpTo(Dice, MaxDice)}
          \cup {IntArg(n) : n \in SideCounts}
          \cup {OtherArg}

(***************************************************************************)
(* What a call returns or raises.  A failed assert is an error whose kind  *)
(* is "InvalidArgument" (the "Invalid argument to ..." messages) or        *)
(* "InvalidDie" ("Negative number supplied as number of sides of die!");   *)
(* "IndexError" and "ZeroDivisionError" are the Python exceptions.         *)
(***************************************************************************)
EmptyDict == <<>>

NoResult == [kind |-> "none", dict |-> EmptyDict, prob |-> EmptyDict, value |-> 0, err |-> "none"]

DictResult(d) == [kind |-> "dict", dict |-> d, prob |-> EmptyDict, value |-> 0, err |-> "none"]

ProbResult(p, exact) == [kind |-> IF exact THEN "fractions" ELSE "floats", dict |-> EmptyDict, prob |-> p, value |-> 0, err |-> "none"]

IntResult(v) == [kind |-> "int", dict |-> EmptyDict, prob |-> EmptyDict, value |-> v, err |-> "none"]

Error(e) == [kind |-> "error", dict |-> EmptyDict, prob |-> EmptyDict, value |-> 0, err |-> e]

IsError(r) == r.kind = "error"

(***************************************************************************)
(* dict helpers                                                            *)
(***************************************************************************)
\* d.get(k, default)
DictGet(d, k, default) == IF k \in DOMAIN d THEN d[k] ELSE default

\* d[k] = v
DictSet(d, k, v) == [x \in (DOMAIN d) \cup {k} |-> IF x = k THEN v ELSE d[x]]

RECURSIVE SumValues(_, _)
\* sum(d.values()), over the keys ks
SumValues(d, ks) ==
  IF ks = {} THEN 0
  ELSE LET k == CHOOSE x \in ks : TRUE IN d[k] + SumValues(d, ks \ {k})

(***************************************************************************)
(* _mergeDiceDicts(d1, d2): the two nested loops over the keys.  The loops *)
(* visit the keys in some order; each visit adds to the entry of newK.     *)
(***************************************************************************)
RECURSIVE mergeInnerOverwrite(_, _, _, _, _)
\* the inner loop with newDict[newK] = newV: a colliding sum overwrites
mergeInnerOverwrite(a, b, k1, ks2, newDict) ==
  IF ks2 = {} THEN newDict
  ELSE LET k2 == CHOOSE x \in ks2 : TRUE
           newK == k1 + k2
           newV == a[k1] * b[k2]
       IN mergeInnerOverwrite(a, b, k1, ks2 \ {k2}, DictSet(newDict, newK, newV))

RECURSIVE mergeInner(_, _, _, _, _)
mergeInner(a, b, k1, ks2, newDict) ==
  IF ks2 = {} THEN newDict
  ELSE LET k2 == CHOOSE x \in ks2 : TRUE
           newK == k1 + k2
           newV == a[k1] * b[k2]
       IN mergeInner(a, b, k1, ks2 \ {k2},
                     DictSet(newDict, newK, DictGet(newDict, newK, 0) + newV))

RECURSIVE mergeOuter(_, _, _, _)
mergeOuter(a, b, ks1, newDict) ==
  IF ks1 = {} THEN newDict
  ELSE LET k1 == CHOOSE x \in ks1 : TRUE
       IN mergeOuter(a, b, ks1 \ {k1}, mergeInner(a, b, k1, DOMAIN b, newDict))

\* the merge without its two early returns: the loops alone
mergeDiceDictsNoEmptyCheck(a, b) == mergeOuter(a, b, DOMAIN a, EmptyDict)

mergeDiceDicts(a, b) ==
  IF Cardinality(DOMAIN a) = 0 THEN b
  ELSE IF Cardinality(DOMAIN b) = 0 THEN a
  ELSE mergeOuter(a, b, DOMAIN a, EmptyDict)

(***************************************************************************)
(* diceDict on a list of one die.                                          *)
(***************************************************************************)
\* diceList[0].count(x)
Count(values, x) == Cardinality({i \in 1..Len(values) : values[i] = x})

\* the single Explicit die with newDict[x] = 1: repeated faces counted once
explicitDictNoRepeats(values) ==
  [x \in {values[i] : i \in 1..Len(values)} |-> 1]

\* for x in set(diceList[0]): newDict[x] = diceList[0].count(x)
explicitDict(values) ==
  [x \in {values[i] : i \in 1..Len(values)} |-> Count(values, x)]

\* the single Uniform die with range(0, n+1): sides 0..n
uniformDictFromZero(n) ==
  IF n > 0 THEN DictResult([x \in 0..n |-> 1]) ELSE Error("InvalidDie")

\* assert diceList[0] > 0; { x : 1 for x in range(1, diceList[0]+1) }
uniformDict(n) ==
  IF n > 0 THEN DictResult([x \in 1..n |-> 1]) ELSE Error("InvalidDie")

singleDie(die) ==
  IF die.kind = "list" THEN DictResult(explicitDict(die.values))
  ELSE uniformDict(die.n)

(***************************************************************************)
(* diceDict(diceList).  random.shuffle leaves the list it is given in any  *)
(* order; the two recursive calls get slices, which are new lists, so only *)
(* the list of the outermost call is reordered.  An outcome is the list    *)
(* after the call and what the call returned or raised.                    *)
(***************************************************************************)
\* the arrangements random.shuffle(items) can leave
shuffle(items) ==
  {[i \in 1..Len(items) |-> items[p[i]]] : p \in Permutations(1..Len(items))}

RECURSIVE diceDictList(_)

\* the results of diceDict on a list, over all shuffles
diceDictResults(items) == {o.res : o \in diceDictList(items)}

\* the split with diceList[L+1:] as the right half: one die is dropped
splitAndMergeSkipOne(items) ==
  LET L == Len(items) \div 2
      lefts == diceDictResults(SubSeq(items, 1, L))
      rights == diceDictResults(SubSeq(items, L + 2, Len(items)))
  IN UNION {IF IsError(l) THEN {l}
            ELSE {IF IsError(r) THEN r
                  ELSE DictResult(mergeDiceDicts(l.dict, r.dict)) : r \in rights}
            : l \in lefts}

\* after the shuffle: split, recurse (left first), merge
splitAndMerge(items) ==
  LET L == Len(items) \div 2
      lefts == diceDictResults(SubSeq(items, 1, L))
      rights == diceDictResults(SubSeq(items, L + 1, Len(items)))
  IN UNION {IF IsError(l) THEN {l}
            ELSE {IF IsError(r) THEN r
                  ELSE DictResult(mergeDiceDicts(l.dict, r.dict)) : r \in rights}
            : l \in lefts}

diceDictList(items) ==
  IF Len(items) = 0 THEN {[list |-> items, res |-> DictResult(EmptyDict)]}
  ELSE IF Len(items) = 1 THEN {[list |-> items, res |-> singleDie(items[1])]}
  ELSE UNION {{[list |-> p, res |-> r] : r \in splitAndMerge(p)} : p \in shuffle(items)}

\* diceDict(arg): the assert on the argument's type, then the body
diceDict(arg) ==
  IF arg.kind # "list" THEN {[arg |-> arg, res |-> Error("InvalidArgument")]}
  ELSE {[arg |-> ListArg(o.list), res |-> o.res] : o \in diceDictList(arg.items)}

(***************************************************************************)
(* diceProb(diceList, exact)                                               *)
(***************************************************************************)
RECURSIVE GCD(_, _)
GCD(a, b) == IF b = 0 THEN a ELSE GCD(b, a % b)

\* Fraction(a, b), and a/b as the quotient it denotes (rounding to a double
\* is not modelled): numerator and denominator in lowest terms
Quotient(a, b) == <<a \div GCD(a, b), b \div GCD(a, b)>>

probabilities(counts, exact) ==
  LET s == SumValues(counts, DOMAIN counts)
  IN IF DOMAIN counts # {} /\ s = 0 THEN Error("ZeroDivisionError")
     ELSE ProbResult([x \in DOMAIN counts |-> Quotient(counts[x], s)], exact)

diceProb(arg, exact) ==
  IF arg.kind \notin {"list", "int"} THEN {[arg |-> arg, res |-> Error("InvalidArgument")]}
  ELSE IF arg.kind = "int"
    \* recast to a new one-element list: the caller's argument is the int
    THEN {[arg |-> arg, res |-> IF IsError(o.res) THEN o.res ELSE probabilities(o.res.dict, exact)]
            : o \in diceDict(ListArg(<<Uniform(arg.n)>>))}
    ELSE {[arg |-> o.arg, res |-> IF IsError(o.res) THEN o.res ELSE probabilities(o.res.dict, exact)]
            : o \in diceDict(arg)}

(***************************************************************************)
(* roll(diceList): the loop over the dice, in the order of the list; each  *)
(* random.choice picks any position of its sequence.                       *)
(***************************************************************************)
RECURSIVE rollFrom(_, _, _)
rollFrom(items, i, acc) ==
  IF i > Len(items) THEN {IntResult(acc)}
  ELSE LET dice == items[i]
       IN IF dice.kind = "int"
          THEN IF dice.n > 0
               THEN UNION {rollFrom(items, i + 1, acc + f) : f \in 1..dice.n}
               ELSE {Error("InvalidDie")}
          ELSE IF Len(dice.values) = 0
               THEN {Error("IndexError")}
               ELSE UNION {rollFrom(items, i + 1, acc + dice.values[j])
                             : j \in 1..Len(dice.values)}

roll(arg) ==
  IF arg.kind \notin {"list", "int"} THEN {Error("InvalidArgument")}
  ELSE IF arg.kind = "int" THEN rollFrom(<<Uniform(arg.n)>>, 1, 0)
  ELSE rollFrom(arg.items, 1, 0)

(***************************************************************************)
(* The caller: it holds one argument (a list object, an int, ...) and      *)
(* calls one of the three operations on it.  op = "none" until the call.   *)
(***************************************************************************)
Init ==
  /\ diceList \in Args
  /\ op = "none"
  /\ result = NoResult
  /\ d1 = EmptyDict
  /\ d2 = EmptyDict

DiceDictCall ==
  /\ op = "none"
  /\ \E o \in diceDict(diceList) :
       /\ diceList' = o.arg
       /\ result' = o.res
  /\ op' = "diceDict"
  /\ UNCHANGED <<d1, d2>>

DiceProbCall ==
  /\ op = "none"
  /\ \E exact \in BOOLEAN :
       \E o \in diceProb(diceList, exact) :
         /\ diceList' = o.arg
         /\ result' = o.res
  /\ op' = "diceProb"
  /\ UNCHANGED <<d1, d2>>

RollCall ==
  /\ op = "none"
  /\ \E r \in roll(diceList) : result' = r
  /\ op' = "roll"
  /\ UNCHANGED <<diceList, d1, d2>>

Next == DiceDictCall \/ DiceProbCall \/ RollCall

Spec == Init /\ [][Next]_vars

(***************************************************************************)
(* _mergeDiceDicts on its own: the two arguments are any two outcome-count *)
(* mappings.                                                               *)
(***************************************************************************)
MergeKeys == (-1)..MaxKey

Mappings == UNION {[ks -> 1..MaxCount] : ks \in SUBSET MergeKeys}

InitMerge ==
  /\ d1 \in Mappings
  /\ d2 \in Mappings
  /\ diceList = OtherArg
  /\ op = "none"
  /\ result = NoResult

MergeCall ==
  /\ op = "none"
  /\ result' = DictResult(mergeDiceDicts(d1, d2))
  /\ op' = "merge"
  /\ UNCHANGED <<diceList, d1, d2>>

NextMerge == MergeCall

SpecMerge == InitMerge /\ [][NextMerge]_vars

(***************************************************************************)
(* What the properties below speak of.                                     *)
(***************************************************************************)
\* a call of callOp on a list has returned or raised
Called(callOp) == op = callOp /\ diceList.kind = "list"

\* the number of faces of a die: n for a Uniform die, the length of the
\* value list for an Explicit die
Faces(die) == IF die.kind = "int" THEN die.n ELSE Len(die.values)

\* largest minus smallest face value of a die that has a face
Spread(die) ==
  IF die.kind = "int" THEN die.n - 1
  ELSE LET vs == {die.values[i] : i \in 1..Len(die.values)}
       IN (CHOOSE x \in vs : \A y \in vs : y <= x)
            - (CHOOSE x \in vs : \A y \in vs : x <= y)

RECURSIVE ProductOfFaces(_, _)
\* the product of Faces over the positions idx of items
ProductOfFaces(items, idx) ==
  IF idx = {} THEN 1
  ELSE LET i == CHOOSE x \in idx : TRUE
       IN Faces(items[i]) * ProductOfFaces(items, idx \ {i})

RECURSIVE SumOver(_, _, _)
\* the sum of F(items[i]) over the positions idx
SumOver(F(_), items, idx) ==
  IF idx = {} THEN 0
  ELSE LET i == CHOOSE x \in idx : TRUE
       IN F(items[i]) + SumOver(F, items, idx \ {i})

FacesLessOne(die) == Faces(die) - 1

Positions(items) == 1..Len(items)

\* the positions of the dice that have at least one face
WithFaces(items) == {i \in Positions(items) : Faces(items[i]) # 0}

SumOfCounts(d) == SumValues(d, DOMAIN d)

\* items without the die at position i
RemoveAt(items, i) == SubSeq(items, 1, i - 1) \o SubSeq(items, i + 1, Len(items))

RECURSIVE SumOfProducts(_, _, _)
\* the sum of a[p[1]] * b[p[2]] over the pairs p of ps
SumOfProducts(a, b, ps) ==
  IF ps = {} THEN 0
  ELSE LET p == CHOOSE x \in ps : TRUE
       IN a[p[1]] * b[p[2]] + SumOfProducts(a, b, ps \ {p})

\* the choices of one face per die: a position in 1..Faces for every die
FaceChoices(items) ==
  LET most == CHOOSE m \in {0} \cup {Faces(items[i]) : i \in Positions(items)} :
                \A i \in Positions(items) : Faces(items[i]) <= m
  IN {c \in [Positions(items) -> 1..most] :
        \A i \in Positions(items) : c[i] <= Faces(items[i])}

\* the value on the chosen face of a die
FaceValue(die, j) == IF die.kind = "int" THEN j ELSE die.values[j]

RECURSIVE ChoiceTotal(_, _, _)
\* the sum of the chosen faces over the positions idx
ChoiceTotal(items, c, idx) ==
  IF idx = {} THEN 0
  ELSE LET i == CHOOSE x \in idx : TRUE
       IN FaceValue(items[i], c[i]) + ChoiceTotal(items, c, idx \ {i})

\* the number of face choices that make the total v
WaysToRoll(items, v) ==
  Cardinality({c \in FaceChoices(items) : ChoiceTotal(items, c, Positions(items)) = v})

(***************************************************************************)
(* C1.  For every non-empty die-list, the sum of all counts in the mapping *)
(* returned by diceDict equals the product of the face counts of the dice  *)
(* (a Uniform die n contributes n, an Explicit die the length of its value *)
(* list, so an empty Explicit die contributes 0).                          *)
(***************************************************************************)
C1_SumIsProductOfFaces ==
  (Called("diceDict") /\ Len(diceList.items) > 0 /\ result.kind = "dict")
    => SumOfCounts(result.dict) = ProductOfFaces(diceList.items, Positions(diceList.items))

(***************************************************************************)
(* C1, amended.  For every non-empty die-list, the sum of all counts in    *)
(* the mapping returned by diceDict equals the product of the face counts  *)
(* of the dice that have at least one face (an empty Explicit die is       *)
(* skipped, it does not contribute 0), and is 0 when no die has a face.    *)
(***************************************************************************)
C1_SumIsProductOfNonEmptyFaces ==
  (Called("diceDict") /\ Len(diceList.items) > 0 /\ result.kind = "dict")
    => SumOfCounts(result.dict) =
         IF WithFaces(diceList.items) = {} THEN 0
         ELSE ProductOfFaces(diceList.items, WithFaces(diceList.items))

\* diceDict returned for three dice, one without faces, one with a repeated
\* face, and more than one outcome is counted
C1_Witness ==
  /\ Called("diceDict")
  /\ result.kind = "dict"
  /\ Len(diceList.items) = 3
  /\ \E i \in Positions(diceList.items) : diceList.items[i] = Explicit(<<>>)
  /\ \E i \in Positions(diceList.items) : diceList.items[i] = Explicit(<<1, 1>>)
  /\ SumOfCounts(result.dict) > 2

(***************************************************************************)
(* C2.  For every die-list, diceDict returns the same outcome-count        *)
(* mapping whatever the order of the dice in the list and whatever         *)
(* arrangement random.shuffle produces at each level: once a call has      *)
(* ended, every execution of diceDict on the list, in whatever order the   *)
(* call left it, ends the same way.                                        *)
(***************************************************************************)
C2_ResultIndependentOfShuffle ==
  Called("diceDict") => diceDictResults(diceList.items) = {result}

\* diceDict returned for three different dice (an odd split), one of them
\* without faces, left in descending order of their number of faces
C2_Witness ==
  /\ Called("diceDict")
  /\ result.kind = "dict"
  /\ Len(diceList.items) = 3
  /\ Faces(diceList.items[1]) > Faces(diceList.items[2])
  /\ Faces(diceList.items[2]) > Faces(diceList.items[3])
  /\ Faces(diceList.items[3]) = 0
  /\ Cardinality(DOMAIN result.dict) > 1

(***************************************************************************)
(* C3.  The die-list passed by the caller is never mutated: after any call *)
(* of diceDict, diceProb or roll the caller's list holds the same          *)
(* descriptors in the same order as before the call.                       *)
(***************************************************************************)
C3_ListNeverMutated == [][diceList' = diceList]_vars

(***************************************************************************)
(* C4.  roll follows the same distribution as diceDict: roll fails on a    *)
(* die-list exactly when diceDict fails on it; a value roll returns is a   *)
(* key of diceDict's mapping, whose count is the number of per-die face    *)
(* choices that produce the value; every key of the mapping can be rolled. *)
(***************************************************************************)
C4_RollFollowsDiceDict ==
  Called("roll") =>
    \A dd \in diceDictResults(diceList.items) :
      /\ IsError(result) <=> IsError(dd)
      /\ result.kind = "int" =>
           /\ result.value \in DOMAIN dd.dict
           /\ dd.dict[result.value] = WaysToRoll(diceList.items, result.value)
      /\ dd.kind = "dict" =>
           \A k \in DOMAIN dd.dict : IntResult(k) \in roll(diceList)

(***************************************************************************)
(* C5.  A bare integer n given as the die-list is promoted to [n] by each  *)
(* of diceDict, diceProb and roll: the call has the outcome of the call    *)
(* with [n], a result for n >= 1 and the 'number of sides' failure for     *)
(* n <= 0.                                                                 *)
(***************************************************************************)
C5_BareIntegerPromoted ==
  (diceList.kind = "int" /\ op # "none") =>
    LET asList == ListArg(<<Uniform(diceList.n)>>)
    IN /\ op = "diceDict" => result \in {o.res : o \in diceDict(asList)}
       /\ op = "diceProb" =>
            result \in {o.res : o \in diceProb(asList, TRUE) \cup diceProb(asList, FALSE)}
       /\ op = "roll" => result \in roll(asList)
       /\ diceList.n >= 1 => ~IsError(result)
       /\ diceList.n <= 0 => result = Error("InvalidDie")

(***************************************************************************)
(* C6.  For every die-list that contains a Uniform descriptor n <= 0 at    *)
(* any position, diceDict, diceProb and roll each fail with the 'number of *)
(* sides' assertion, whatever the other dice are.                          *)
(***************************************************************************)
C6_NonPositiveSidesFail ==
  (diceList.kind = "list" /\ op # "none"
     /\ \E i \in Positions(diceList.items) :
          diceList.items[i].kind = "int" /\ diceList.items[i].n <= 0)
    => result = Error("InvalidDie")

(***************************************************************************)
(* C7.  diceProb fails with an error (InvalidArgumentError) whenever the   *)
(* die-list evaluates to a total of 0 outcomes, the empty die-list or a    *)
(* die-list of empty Explicit dice for example; it returns no probability  *)
(* mapping then.                                                           *)
(***************************************************************************)
C7_NoOutcomesFail ==
  (Called("diceProb")
     /\ \A dd \in diceDictResults(diceList.items) :
          dd.kind = "dict" /\ SumOfCounts(dd.dict) = 0)
    => result = Error("InvalidArgument")

(***************************************************************************)
(* C8.  For non-empty mappings A and B, _mergeDiceDicts(A, B) is the       *)
(* mapping whose keys are the sums a+b and whose value at s is the sum of  *)
(* A[a]*B[b] over the pairs with a+b = s; if A is empty it is B and if B   *)
(* is empty it is A.                                                       *)
(***************************************************************************)
C8_MergeIsConvolution ==
  op = "merge" =>
    IF DOMAIN d1 = {} THEN result.dict = d2
    ELSE IF DOMAIN d2 = {} THEN result.dict = d1
    ELSE /\ DOMAIN result.dict = {a + b : a \in DOMAIN d1, b \in DOMAIN d2}
         /\ \A s \in DOMAIN result.dict :
              result.dict[s] =
                SumOfProducts(d1, d2, {p \in (DOMAIN d1) \X (DOMAIN d2) : p[1] + p[2] = s})

\* a merge in which two pairs of keys collide on the sum 0, one of them
\* with a negative key, and the counts are not all 1
C8_Witness ==
  /\ op = "merge"
  /\ {-1, 0, 1} \subseteq DOMAIN d1
  /\ {-1, 0, 1} \subseteq DOMAIN d2
  /\ d1[-1] = 2
  /\ d2[1] = 2
  /\ result.dict[0] > 4

(***************************************************************************)
(* C9.  An empty Explicit die is the identity of diceDict: diceDict of a   *)
(* list with an empty Explicit die at some position ends as diceDict of    *)
(* the list without that die, with the same mapping and no error of its    *)
(* own.                                                                    *)
(***************************************************************************)
C9_EmptyDieIsIdentity ==
  Called("diceDict") =>
    \A i \in Positions(diceList.items) :
      diceList.items[i] = Explicit(<<>>) =>
        diceDictResults(RemoveAt(diceList.items, i)) = {result}

\* diceDict returned a mapping with several keys for three dice, the middle
\* one an empty Explicit die
C9_Witness ==
  /\ Called("diceDict")
  /\ Len(diceList.items) = 3
  /\ diceList.items[2] = Explicit(<<>>)
  /\ Faces(diceList.items[1]) > 0
  /\ Faces(diceList.items[3]) > 0
  /\ result.kind = "dict"
  /\ Cardinality(DOMAIN result.dict) > 2

(***************************************************************************)
(* C10.  For every die-list, the number of keys in the mapping returned by *)
(* diceDict is at most 1 plus the sum over the dice of (number of faces    *)
(* - 1).                                                                   *)
(***************************************************************************)
C10_KeysBoundedByFaces ==
  (Called("diceDict") /\ result.kind = "dict")
    => Cardinality(DOMAIN result.dict)
         <= 1 + SumOver(FacesLessOne, diceList.items, Positions(diceList.items))

(***************************************************************************)
(* C10, amended.  For every die-list, the number of keys in the mapping    *)
(* returned by diceDict is at most 1 plus the sum, over the dice that have *)
(* at least one face, of (largest face value - smallest face value), which *)
(* is n - 1 for a Uniform die n.                                           *)
(***************************************************************************)
C10_KeysBoundedBySpread ==
  (Called("diceDict") /\ result.kind = "dict")
    => Cardinality(DOMAIN result.dict)
         <= 1 + SumOver(Spread, diceList.items, WithFaces(diceList.items))

\* diceDict returned more keys than 1 plus the sum of (faces - 1), for dice
\* that all have faces
C10_Witness ==
  /\ Called("diceDict")
  /\ result.kind = "dict"
  /\ WithFaces(diceList.items) = Positions(diceList.items)
  /\ Cardinality(DOMAIN result.dict)
       > 1 + SumOver(FacesLessOne, diceList.items, Positions(diceList.items))

====
